---- MODULE Spec2Model ----
(***************************************************************************)
(* Model of the NICE DCV external authenticator                            *)
(* (files/default/ext_auth_files/pcluster_dcv_ext_auth.py):                *)
(* the two OneTimeTokenHandler stores, the three protocol operations of    *)
(* DCVAuthenticator (_get_request_token, _get_session_token, _check_auth)  *)
(* behind do_GET / do_POST, the authorization directory and the process    *)
(* table the handlers read.                                                *)
(***************************************************************************)
EXTENDS Integers, Sequences, FiniteSets, TLC

(***************************************************************************)
(* Strings.  A string is held run-length encoded: a sequence of runs       *)
(* [c |-> character, n |-> repetitions], n >= 1, adjacent runs of          *)
(* different characters.  The encoding is exact, so string equality (the   *)
(* dictionary key comparison) is equality of the encodings.                *)
(***************************************************************************)
NL == "\n"

Lower == {"a", "b"}
Upper == {"A"}
Digit == {"0"}

\* string.ascii_letters + string.digits + "_" + "-"
allowed_chars == Lower \cup Upper \cup Digit \cup {"_", "-"}

Rep(c, n) == IF n = 0 THEN << >> ELSE << [c |-> c, n |-> n] >>

RECURSIVE StrLen(_)
StrLen(s) == IF s = << >> THEN 0 ELSE Head(s).n + StrLen(Tail(s))

CharsOf(s) == { s[i].c : i \in 1..Len(s) }

FirstChar(s) == s[1].c

LastChar(s) == s[Len(s)].c

\* the string without its last character
DropLast(s) ==
    IF s[Len(s)].n = 1
    THEN SubSeq(s, 1, Len(s) - 1)
    ELSE [s EXCEPT ![Len(s)].n = @ - 1]

\* the string without its first character
DropFirst(s) ==
    IF s[1].n = 1
    THEN Tail(s)
    ELSE [s EXCEPT ![1].n = @ - 1]

TOKEN_LENGTH == 256
USER_TAIL_MAX == 31
USER_TAIL_DOLLAR_MAX == 30
SESSION_ID_MAX == 128

\* the text between ^ and $ of USER_REGEX, matched against the whole of s
UserBody(s) ==
    /\ s # << >>
    /\ FirstChar(s) \in Lower \cup {"_"}
    /\ LET rest == DropFirst(s)
           tailChars == Lower \cup Digit \cup {"_", "-"}
       IN  \/ /\ StrLen(rest) <= USER_TAIL_MAX
              /\ CharsOf(rest) \subseteq tailChars
           \/ /\ rest # << >>
              /\ LastChar(rest) = "$"
              /\ StrLen(DropLast(rest)) <= USER_TAIL_DOLLAR_MAX
              /\ CharsOf(DropLast(rest)) \subseteq tailChars

\* the text between ^ and $ of SESSION_ID_REGEX
SessionIdBody(s) ==
    /\ StrLen(s) <= SESSION_ID_MAX
    /\ CharsOf(s) \subseteq allowed_chars

\* the text between ^ and $ of TOKEN_REGEX
TokenBody(s) ==
    /\ StrLen(s) = TOKEN_LENGTH
    /\ CharsOf(s) \subseteq allowed_chars

\* the prefixes of s at whose end "$" matches: "$" matches at the end of
\* the string and also just before a newline that ends the string
DollarEnds(s) ==
    {s} \cup (IF s # << >> /\ LastChar(s) = NL THEN {DropLast(s)} ELSE {})

\* a user pattern that every string matches
USER_REGEX_any(s) == TRUE

USER_REGEX(s) == \E t \in DollarEnds(s) : UserBody(t)
SESSION_ID_REGEX(s) == \E t \in DollarEnds(s) : SessionIdBody(t)
TOKEN_REGEX(s) == \E t \in DollarEnds(s) : TokenBody(t)

\* re.match(regex, s), the pattern given by its name
re_match(regex, s) ==
    CASE regex = "USER_REGEX" -> USER_REGEX(s)
      [] regex = "SESSION_ID_REGEX" -> SESSION_ID_REGEX(s)
      [] regex = "TOKEN_REGEX" -> TOKEN_REGEX(s)

\* the k-th string returned by generate_random_token(256): system
\* randomness is modelled as a fresh string on every call
generate_random_token(k) == Rep("a", k) \o Rep("b", TOKEN_LENGTH - k)

\* hexdigest of sha512 over the token and a fresh salt: an injective
\* pairing (no collisions)
generate_sha512_hash(token, salt) == [sha512 |-> token, salt |-> salt]

(***************************************************************************)
(* OneTimeTokenHandler.  _tokens is an OrderedDict: a sequence of          *)
(* [token, info] entries in insertion order, keys distinct.                *)
(***************************************************************************)
None == [none |-> TRUE]

Keys(tokens) == { tokens[i].token : i \in 1..Len(tokens) }

Index(tokens, token) == CHOOSE i \in 1..Len(tokens) : tokens[i].token = token

\* popitem(last=True) in place of popitem(last=False): the newest goes
RECURSIVE PopNewest(_, _)
PopNewest(tokens, max) ==
    IF Len(tokens) >= max /\ tokens # << >>
    THEN PopNewest(SubSeq(tokens, 1, Len(tokens) - 1), max)
    ELSE tokens

\* while len(self._tokens) >= max: self._tokens.popitem(last=False)
RECURSIVE PopOldest(_, _)
PopOldest(tokens, max) ==
    IF Len(tokens) >= max /\ tokens # << >>
    THEN PopOldest(Tail(tokens), max)
    ELSE tokens

\* self._tokens[token] = token_info: a new key goes last, a key already
\* present keeps its place and gets the new value
SetItem(tokens, token, info) ==
    IF token \in Keys(tokens)
    THEN [tokens EXCEPT ![Index(tokens, token)].info = info]
    ELSE Append(tokens, [token |-> token, info |-> info])

add_token(tokens, max, token, info) ==
    SetItem(PopOldest(tokens, max), token, info)

\* the value self._tokens.pop(token, None) returns
get_token_info(tokens, token) ==
    IF token \in Keys(tokens) THEN tokens[Index(tokens, token)].info ELSE None

\* self._tokens.get(token) in place of pop: the entry stays
get_keeps_token(tokens, token) == tokens

\* the dictionary self._tokens.pop(token, None) leaves
pop_token(tokens, token) ==
    SelectSeq(tokens, LAMBDA e : e.token # token)

(***************************************************************************)
(* State.                                                                  *)
(***************************************************************************)
VARIABLES
    \* the authenticator process and what it reads
    now,                    \* datetime.utcnow(), in seconds
    request_token_manager,  \* _tokens of DCVAuthenticator.request_token_manager
    session_token_manager,  \* _tokens of DCVAuthenticator.session_token_manager
    generated,              \* number of generate_random_token calls so far
    issued,                 \* history: the accessFile names returned
    exchanged,              \* history: the request tokens _get_session_token found
    files,                  \* the files of AUTHORIZATION_FILE_DIR
    processes,              \* the rows of "ps aux"
    pc,                     \* position of the request being handled
    call,                   \* the request: its parameters, locals and answer
    \* one OneTimeTokenHandler driven directly by add_token / get_token_info
    store,          \* its _tokens
    capacity,       \* its _max_number_of_tokens
    inserted,       \* history: the tokens added, in the order of the calls
    taken,          \* history: the tokens a get_token_info call has returned
    last,           \* history: the last call on the store and its result
    \* history of the handshakes, and the handler threads of SpecThreads
    trail,          \* history: what was issued, proved, taken and answered
    threads         \* position and locals of each handler thread

authVars == << now, request_token_manager, session_token_manager, generated,
               issued, exchanged, files, processes, pc, call >>

threadVars == << threads >>

storeVars == << store, capacity, inserted, taken, last >>

vars == << now, request_token_manager, session_token_manager, generated,
           issued, exchanged, files, processes, pc, call,
           store, capacity, inserted, taken, last, trail, threads >>

(***************************************************************************)
(* DCVAuthenticator: class constants, token records and the parts of the   *)
(* handlers that compute without waiting.                                  *)
(***************************************************************************)
\* 500 and 100 in the source; the stores are checked at a small capacity
MAX_NUMBER_OF_REQUEST_TOKENS == 2
MAX_NUMBER_OF_SESSION_TOKENS == 2
REQUEST_TOKEN_EXPIRE_SECONDS == 10
SESSION_TOKEN_EXPIRE_SECONDS == 30
\* retry_call(..., tries=5, delay=1)
RETRY_TRIES == 5
RETRY_DELAY == 1

RequestTokenInfo(user, dcv_session_id, creation_time, access_file) ==
    [user |-> user, dcv_session_id |-> dcv_session_id,
     creation_time |-> creation_time, access_file |-> access_file]

SessionTokenInfo(user, dcv_session_id, creation_time) ==
    [user |-> user, dcv_session_id |-> dcv_session_id,
     creation_time |-> creation_time]

\* in the place of a string: a parameter the request does not carry
Absent == << [c |-> "absent", n |-> 0] >>

\* in the place of a string: Python's None
NoString == << [c |-> "None", n |-> 0] >>

Present(p) == IF p = Absent THEN 0 ELSE 1

\* the password database: pw_name by uid; getpwuid raises KeyError for a
\* uid outside it
passwd == [uid \in {"uid_alice", "uid_bob"} |->
              IF uid = "uid_alice" THEN Rep("a", 1) ELSE Rep("b", 1)]

dcv_agent_path == "/usr/libexec/dcv/dcvagent"

is_process_valid(row, user, session_id) ==
    /\ row.command = dcv_agent_path
    /\ row.user = user
    /\ row.session = session_id

\* the session check left out
is_session_valid_always(rows, user, session_id) == TRUE

\* no row ever passes the filter
is_session_valid_never(rows, user, session_id) == FALSE

\* TRUE: _is_session_valid returns; FALSE: it raises IncorrectRequestException
is_session_valid(rows, user, session_id) ==
    \E row \in rows : is_process_valid(row, user, session_id)

\* TRUE: _validate_param returns; FALSE: it raises IncorrectRequestException
validate_param(string_to_test, regex) == re_match(regex, string_to_test)

\* ">=" in place of ">": a token of age exactly the lifetime is refused
request_token_expired_early(token_info, t) ==
    t - token_info.creation_time >= REQUEST_TOKEN_EXPIRE_SECONDS

\* the expiry check left out
request_token_never_expired(token_info, t) == FALSE

\* the condition of the if on the token age in _get_session_token
request_token_expired(token_info, t) ==
    t - token_info.creation_time > REQUEST_TOKEN_EXPIRE_SECONDS

\* "<" in place of "<=": a token of age exactly the lifetime is refused
session_token_accepted_strict(token_info, session_id, t) ==
    /\ token_info # None
    /\ token_info.dcv_session_id = session_id
    /\ t - token_info.creation_time < SESSION_TOKEN_EXPIRE_SECONDS

\* the condition of the if in _check_auth
session_token_accepted(token_info, session_id, t) ==
    /\ token_info # None
    /\ token_info.dcv_session_id = session_id
    /\ t - token_info.creation_time <= SESSION_TOKEN_EXPIRE_SECONDS

\* get in place of pop unless the token is accepted: a refused token stays
check_auth_keeps_rejected(tokens, session_id, session_token, t) ==
    IF ~validate_param(session_id, "SESSION_ID_REGEX")
          \/ ~validate_param(session_token, "TOKEN_REGEX")
    THEN [kind |-> "MalformedRequest", user |-> NoString, tokens |-> tokens,
          token_info |-> None]
    ELSE LET token_info == get_token_info(tokens, session_token)
             accepted == session_token_accepted(token_info, session_id, t)
         IN  [kind |-> "returned",
              user |-> IF accepted THEN token_info.user ELSE NoString,
              tokens |-> IF accepted THEN pop_token(tokens, session_token)
                         ELSE tokens,
              token_info |-> token_info]

\* _check_auth at time t: what it raises or returns, and the store it leaves
check_auth(tokens, session_id, session_token, t) ==
    IF ~validate_param(session_id, "SESSION_ID_REGEX")
    THEN [kind |-> "MalformedRequest", user |-> NoString, tokens |-> tokens,
          token_info |-> None]
    ELSE IF ~validate_param(session_token, "TOKEN_REGEX")
    THEN [kind |-> "MalformedRequest", user |-> NoString, tokens |-> tokens,
          token_info |-> None]
    ELSE LET token_info == get_token_info(tokens, session_token)
         IN  [kind |-> "returned",
              user |-> IF session_token_accepted(token_info, session_id, t)
                       THEN token_info.user ELSE NoString,
              tokens |-> pop_token(tokens, session_token),
              token_info |-> token_info]

\* the comparison of pw_name with the user left out
check_access_file_any_owner(fs, access_file, user, t, remove_fails) ==
    LET found == { f \in fs : f.name = access_file }
    IN  IF found = {}
        THEN [kind |-> "ProofMissing", files |-> fs]
        ELSE LET file_details == CHOOSE f \in found : TRUE
             IN  IF file_details.st_uid \notin DOMAIN passwd
                 THEN [kind |-> "Fault", files |-> fs]
                 ELSE IF t - file_details.st_mtime > REQUEST_TOKEN_EXPIRE_SECONDS
                 THEN [kind |-> "ProofExpired", files |-> fs]
                 ELSE IF remove_fails
                 THEN [kind |-> "ProofMissing", files |-> fs]
                 ELSE [kind |-> "passed", files |-> fs \ {file_details}]

\* st_uid of the file os.stat finds under a name
file_owner(fs, access_file) ==
    (CHOOSE f \in fs : f.name = access_file).st_uid

\* the modification time compared before the owner
check_access_file_mtime_first(fs, access_file, user, t, remove_fails) ==
    LET found == { f \in fs : f.name = access_file }
    IN  IF found = {}
        THEN [kind |-> "ProofMissing", files |-> fs]
        ELSE LET file_details == CHOOSE f \in found : TRUE
             IN  IF t - file_details.st_mtime > REQUEST_TOKEN_EXPIRE_SECONDS
                 THEN [kind |-> "ProofExpired", files |-> fs]
                 ELSE IF file_details.st_uid \notin DOMAIN passwd
                 THEN [kind |-> "Fault", files |-> fs]
                 ELSE IF passwd[file_details.st_uid] # user
                 THEN [kind |-> "ProofOwnerMismatch", files |-> fs]
                 ELSE IF remove_fails
                 THEN [kind |-> "ProofMissing", files |-> fs]
                 ELSE [kind |-> "passed", files |-> fs \ {file_details}]

\* the try block of _get_session_token (os.stat, getpwuid, mtime, os.remove)
check_access_file(fs, access_file, user, t, remove_fails) ==
    LET found == { f \in fs : f.name = access_file }
    IN  IF found = {}
        THEN [kind |-> "ProofMissing", files |-> fs]
        ELSE LET file_details == CHOOSE f \in found : TRUE
             IN  IF file_details.st_uid \notin DOMAIN passwd
                 THEN [kind |-> "Fault", files |-> fs]
                 ELSE IF passwd[file_details.st_uid] # user
                 THEN [kind |-> "ProofOwnerMismatch", files |-> fs]
                 ELSE IF t - file_details.st_mtime > REQUEST_TOKEN_EXPIRE_SECONDS
                 THEN [kind |-> "ProofExpired", files |-> fs]
                 ELSE IF remove_fails
                 THEN [kind |-> "ProofMissing", files |-> fs]
                 ELSE [kind |-> "passed", files |-> fs \ {file_details}]

\* the request token removed only once every check has passed
get_session_token_keeps_failed(tokens, fs, request_token, t, remove_fails) ==
    IF ~validate_param(request_token, "TOKEN_REGEX")
    THEN [kind |-> "MalformedRequest", tokens |-> tokens, files |-> fs,
          token_info |-> None]
    ELSE LET token_info == get_token_info(tokens, request_token)
         IN  IF token_info = None
             THEN [kind |-> "InvalidToken", tokens |-> tokens, files |-> fs,
                   token_info |-> None]
             ELSE IF request_token_expired(token_info, t)
             THEN [kind |-> "TokenExpired", tokens |-> tokens, files |-> fs,
                   token_info |-> token_info]
             ELSE LET proof == check_access_file(fs, token_info.access_file,
                                                 token_info.user, t, remove_fails)
                  IN  [kind |-> proof.kind,
                       tokens |-> IF proof.kind = "passed"
                                  THEN pop_token(tokens, request_token)
                                  ELSE tokens,
                       files |-> proof.files, token_info |-> token_info]

\* _get_session_token up to the session re-verification, at time t
get_session_token(tokens, fs, request_token, t, remove_fails) ==
    IF ~validate_param(request_token, "TOKEN_REGEX")
    THEN [kind |-> "MalformedRequest", tokens |-> tokens, files |-> fs,
          token_info |-> None]
    ELSE LET token_info == get_token_info(tokens, request_token)
             rest == pop_token(tokens, request_token)
         IN  IF token_info = None
             THEN [kind |-> "InvalidToken", tokens |-> rest, files |-> fs,
                   token_info |-> None]
             ELSE IF request_token_expired(token_info, t)
             THEN [kind |-> "TokenExpired", tokens |-> rest, files |-> fs,
                   token_info |-> token_info]
             ELSE LET proof == check_access_file(fs, token_info.access_file,
                                                 token_info.user, t, remove_fails)
                  IN  [kind |-> proof.kind, tokens |-> rest,
                       files |-> proof.files, token_info |-> token_info]

(***************************************************************************)
(* Spec: the authenticator answering one request at a time, while time     *)
(* passes, sessions start and end and users create access files.           *)
(***************************************************************************)
MaxTime == 31
MaxGenerated == 3

\* how many parameters a request carries besides the ones its handler reads
OtherParams == {0, 1}
WideOtherParams == {0, 1, 2}

\* the instants at which something happens: around the retry delay and the
\* two lifetimes
Instants ==
    { t \in { 0, RETRY_DELAY,
              REQUEST_TOKEN_EXPIRE_SECONDS, REQUEST_TOKEN_EXPIRE_SECONDS + 1,
              SESSION_TOKEN_EXPIRE_SECONDS, SESSION_TOKEN_EXPIRE_SECONDS + 1 } :
        t <= MaxTime }

alice == Rep("a", 1)
bob == Rep("b", 1)
sess1 == Rep("0", 1)
sess2 == Rep("_", 1)

\* the tokens the generator has returned so far, and the one it returns next
Generated == { generate_random_token(k) : k \in 1..(generated + 1) }

\* the query strings offered with action=requestToken: two accounts, two
\* session ids, and the user "A"
RequestTokenQueries ==
    { [authUser |-> u, sessionID |-> i, others |-> 0] :
          u \in {alice, bob}, i \in {sess1, sess2} }
      \cup { [authUser |-> Rep("A", 1), sessionID |-> sess1, others |-> 0] }

\* the query strings offered with action=sessionToken: a generated token
\* alone or with other parameters, a token of 255 characters, none
SessionTokenQueries ==
    { [requestToken |-> t, others |-> n] :
          t \in Generated, n \in OtherParams }
      \cup { [requestToken |-> t, others |-> 0] : t \in {Rep("a", 255), Absent} }

\* the bodies offered to POST: a generated token and a session id, alone or
\* with other parameters, and a session id of 129 characters
PostBodies ==
    { [authenticationToken |-> t, sessionId |-> i, others |-> n] :
          t \in Generated, i \in {sess1, sess2}, n \in OtherParams }
      \cup { [authenticationToken |-> t, sessionId |-> Rep("0", 129), others |-> 1] :
                t \in Generated }

\* SpecInput offers more: authUser "a\n" and 33 characters long; sessionID
\* "0\n", "!" and 129 characters long; parameters left out
UserInputs == { alice, bob, Rep("A", 1), alice \o Rep(NL, 1), Rep("a", 33) }

SessionIdInputs == { sess1, sess2, sess1 \o Rep(NL, 1), Rep("!", 1), Rep("0", 129) }

\* tokens of 255 and 257 characters, one followed by "\n", one outside the
\* alphabet
TokenInputs ==
    Generated \cup { Rep("a", 255), Rep("a", 257),
                     generate_random_token(1) \o Rep(NL, 1),
                     Rep("!", 256) }

WideRequestTokenQueries ==
    { [authUser |-> u, sessionID |-> sess1, others |-> 0] :
          u \in UserInputs \cup {Absent} }
      \cup { [authUser |-> alice, sessionID |-> i, others |-> 0] :
                i \in SessionIdInputs \cup {Absent} }
      \cup { [authUser |-> alice, sessionID |-> sess1, others |-> n] :
                n \in WideOtherParams }

WideSessionTokenQueries ==
    { [requestToken |-> t, others |-> n] :
          t \in TokenInputs \cup {Absent}, n \in WideOtherParams }

WidePostBodies ==
    { [authenticationToken |-> t, sessionId |-> sess1, others |-> n] :
          t \in TokenInputs \cup {Absent}, n \in WideOtherParams }
      \cup { [authenticationToken |-> t, sessionId |-> i, others |-> 1] :
                t \in Generated, i \in SessionIdInputs \cup {Absent} }

ProcessRows ==
    { [user |-> alice, command |-> dcv_agent_path, session |-> sess1] }

\* the uids that create files: two accounts and one without passwd entry
FileOwners == { "uid_alice", "uid_bob", "uid_gone" }

\* no request is being handled
NoCall == [op |-> "none"]

\* the handler threads of SpecThreads, and a thread with no request
Threads == {1, 2}

idle == [pc |-> "idle"]

\* a request arrives and is answered in the same step; token_info is what
\* the handler got from its token store (None: nothing, or no lookup)
Answer(op, kind, input, token_info, out) ==
    /\ pc' = "answered"
    /\ call' = [op |-> op, input |-> input, kind |-> kind, out |-> out,
                token_info |-> token_info, at |-> now, tries |-> 0, wake |-> 0,
                attempts |-> 0, raised |-> "none"]

\* a request arrives and goes on to _verify_session_existence
Verify(op, input, token_info) ==
    /\ now <= MaxTime
    /\ pc' = "verify"
    /\ call' = [op |-> op, input |-> input, kind |-> "pending", out |-> None,
                token_info |-> token_info, at |-> now, tries |-> RETRY_TRIES,
                wake |-> now, attempts |-> 0, raised |-> "none"]

\* the request under _verify_session_existence is answered
AnswerVerified(kind, out) ==
    /\ pc' = "answered"
    /\ call' = [call EXCEPT !.kind = kind, !.out = out, !.tries = 0, !.wake = 0,
                            !.attempts = @ + 1,
                            !.raised = CASE kind = "InvalidSession"
                                              -> "IncorrectRequestException"
                                         [] kind = "Fault" -> "Fault"
                                         [] OTHER -> "none"]

Init ==
    /\ now = 0
    /\ request_token_manager = << >>
    /\ session_token_manager = << >>
    /\ generated = 0
    /\ issued = {}
    /\ exchanged = {}
    /\ files = {}
    /\ processes = {}
    /\ pc = "idle"
    /\ call = NoCall
    /\ store = << >>
    /\ capacity = 1
    /\ inserted = << >>
    /\ taken = {}
    /\ last = [op |-> "none"]
    /\ trail = {}
    /\ threads = [t \in Threads |-> idle]

\* GET ?action=requestToken[&authUser=..][&sessionID=..][&other=..]
do_GET_requestToken(queries) ==
    /\ pc = "idle"
    /\ \E input \in queries :
        LET n == 1 + Present(input.authUser) + Present(input.sessionID)
                   + input.others
            bad == \/ n > 3
                   \/ input.authUser = Absent
                   \/ input.sessionID = Absent
                   \/ ~validate_param(input.authUser, "USER_REGEX")
                   \/ ~validate_param(input.sessionID, "SESSION_ID_REGEX")
        IN  IF bad
            THEN Answer("requestToken", "MalformedRequest", input, None, None)
            ELSE /\ generated + 2 <= MaxGenerated
                 /\ Verify("requestToken", input,
                           [user |-> input.authUser,
                            dcv_session_id |-> input.sessionID])
    /\ UNCHANGED << now, request_token_manager, session_token_manager,
                    generated, issued, exchanged, files, processes, storeVars, trail, threadVars >>

\* GET ?action=sessionToken[&requestToken=..][&other=..]
do_GET_sessionToken(queries) ==
    /\ pc = "idle"
    /\ \E input \in queries, remove_fails \in BOOLEAN :
        LET requestToken == input.requestToken
            n == 1 + Present(requestToken) + input.others
        IN  IF n > 3 \/ requestToken = Absent
            THEN /\ Answer("sessionToken", "MalformedRequest", input, None, None)
                 /\ UNCHANGED << request_token_manager, files, exchanged, trail >>
            ELSE LET r == get_session_token(request_token_manager, files,
                                            requestToken, now, remove_fails)
                 IN  /\ request_token_manager' = r.tokens
                     /\ files' = r.files
                     /\ exchanged' = IF r.token_info = None THEN exchanged
                                     ELSE exchanged \cup {requestToken}
                     /\ IF r.kind = "passed"
                        THEN /\ generated + 1 <= MaxGenerated
                             /\ Verify("sessionToken", input, r.token_info)
                             /\ trail' = trail \cup
                                    { [ev |-> "proved",
                                       name |-> r.token_info.access_file,
                                       st_uid |-> file_owner(files,
                                                     r.token_info.access_file)] }
                        ELSE /\ Answer("sessionToken", r.kind, input,
                                       r.token_info, None)
                             /\ UNCHANGED trail
    /\ UNCHANGED << now, session_token_manager, generated, issued, processes,
                    storeVars, threadVars >>

\* GET with no parameter at all, without action, or with another action
do_GET_other ==
    /\ pc = "idle"
    /\ \E action \in {"bogus", "absent"} :
        Answer("GET", "MalformedRequest", [action |-> action], None, None)
    /\ UNCHANGED << now, request_token_manager, session_token_manager,
                    generated, issued, exchanged, files, processes, storeVars, trail, threadVars >>

\* an attempt of retry_call at _is_session_valid finds the session, in
\* _get_request_token: the request token is generated, stored and returned
request_token_issued ==
    /\ pc = "verify"
    /\ call.op = "requestToken"
    /\ now >= call.wake
    /\ is_session_valid(processes, call.token_info.user,
                           call.token_info.dcv_session_id)
    /\ LET request_token == generate_random_token(generated + 1)
           salt == generate_random_token(generated + 2)
           access_file == generate_sha512_hash(request_token, salt)
       IN  /\ request_token_manager' =
                  add_token(request_token_manager, MAX_NUMBER_OF_REQUEST_TOKENS,
                            request_token,
                            RequestTokenInfo(call.token_info.user,
                                             call.token_info.dcv_session_id,
                                             now, access_file))
           /\ generated' = generated + 2
           /\ issued' = issued \cup {access_file}
           /\ trail' = trail \cup
                  { [ev |-> "requested", token |-> request_token,
                     user |-> call.token_info.user,
                     session |-> call.token_info.dcv_session_id,
                     access_file |-> access_file] }
           /\ AnswerVerified("issued", [requestToken |-> request_token,
                                        accessFile |-> access_file])
    /\ UNCHANGED << now, session_token_manager, exchanged, files, processes,
                    storeVars, threadVars >>

\* the same in _get_session_token: the session token is generated, stored
\* and returned
session_token_issued ==
    /\ pc = "verify"
    /\ call.op = "sessionToken"
    /\ now >= call.wake
    /\ is_session_valid(processes, call.token_info.user,
                           call.token_info.dcv_session_id)
    /\ LET session_token == generate_random_token(generated + 1)
       IN  /\ session_token_manager' =
                  add_token(session_token_manager, MAX_NUMBER_OF_SESSION_TOKENS,
                            session_token,
                            SessionTokenInfo(call.token_info.user,
                                             call.token_info.dcv_session_id, now))
           /\ generated' = generated + 1
           /\ trail' = trail \cup
                  { [ev |-> "granted", token |-> session_token,
                     from |-> call.input.requestToken,
                     user |-> call.token_info.user,
                     session |-> call.token_info.dcv_session_id] }
           /\ AnswerVerified("issued", [sessionToken |-> session_token])
    /\ UNCHANGED << now, request_token_manager, issued, exchanged, files,
                    processes, storeVars, threadVars >>

\* an attempt raises and tries are left: retry_call sleeps delay seconds.
\* _is_session_valid raises IncorrectRequestException when no row matches;
\* ps_fails: it raises something else (check_output: CalledProcessError or
\* OSError; is_process_valid: IndexError on a row of the user's dcvagent
\* without the session argument)
session_check_retry ==
    /\ pc = "verify"
    /\ now >= call.wake
    /\ call.tries > 1
    /\ \E ps_fails \in BOOLEAN :
          /\ ps_fails \/ ~is_session_valid(processes, call.token_info.user,
                              call.token_info.dcv_session_id)
          /\ call' = [call EXCEPT !.tries = @ - 1, !.wake = now + RETRY_DELAY,
                                  !.attempts = @ + 1,
                                  !.raised = IF ps_fails THEN "Fault"
                                             ELSE "IncorrectRequestException"]
    /\ UNCHANGED << now, request_token_manager, session_token_manager,
                    generated, issued, exchanged, files, processes, pc,
                    storeVars, trail, threadVars >>

\* the last attempt raises: retry_call lets the exception through
session_check_failed ==
    /\ pc = "verify"
    /\ now >= call.wake
    /\ call.tries = 1
    /\ \E ps_fails \in BOOLEAN :
          /\ ps_fails \/ ~is_session_valid(processes, call.token_info.user,
                           call.token_info.dcv_session_id)
          /\ AnswerVerified(IF ps_fails THEN "Fault" ELSE "InvalidSession", None)
    /\ UNCHANGED << now, request_token_manager, session_token_manager,
                    generated, issued, exchanged, files, processes, storeVars, trail, threadVars >>

\* a POST that looks its token up in the request-token store as well
do_POST_either_store(bodies) ==
    /\ pc = "idle"
    /\ \E input \in bodies :
        LET n == Present(input.authenticationToken) + Present(input.sessionId)
                   + input.others
        IN  IF \/ n # 3
               \/ input.authenticationToken = Absent
               \/ input.sessionId = Absent
            THEN /\ Answer("POST", "MalformedRequest", input, None, None)
                 /\ UNCHANGED << session_token_manager, request_token_manager >>
            ELSE LET r == check_auth(session_token_manager, input.sessionId,
                                     input.authenticationToken, now)
                 IN  /\ session_token_manager' = r.tokens
                     /\ request_token_manager' =
                            pop_token(request_token_manager,
                                      input.authenticationToken)
                     /\ IF r.kind = "MalformedRequest"
                        THEN Answer("POST", "MalformedRequest", input, None, None)
                        ELSE IF r.user # NoString /\ r.user # << >>
                        THEN Answer("POST", "yes", input, r.token_info,
                                    [username |-> r.user])
                        ELSE Answer("POST", "ValidationFailed", input,
                                    r.token_info, None)
    /\ UNCHANGED << now, generated, issued, exchanged,
                    files, processes, storeVars, trail, threadVars >>

\* POST with body [authenticationToken=..][&sessionId=..][&other=..]
do_POST(bodies) ==
    /\ pc = "idle"
    /\ \E input \in bodies :
        LET n == Present(input.authenticationToken) + Present(input.sessionId)
                   + input.others
        IN  IF \/ n # 3
               \/ input.authenticationToken = Absent
               \/ input.sessionId = Absent
            THEN /\ Answer("POST", "MalformedRequest", input, None, None)
                 /\ UNCHANGED session_token_manager
            ELSE LET r == check_auth(session_token_manager, input.sessionId,
                                     input.authenticationToken, now)
                 IN  /\ session_token_manager' = r.tokens
                     /\ IF r.kind = "MalformedRequest"
                        THEN Answer("POST", "MalformedRequest", input, None, None)
                        ELSE IF r.user # NoString /\ r.user # << >>
                        THEN Answer("POST", "yes", input, r.token_info,
                                    [username |-> r.user])
                        ELSE Answer("POST", "ValidationFailed", input,
                                    r.token_info, None)
    /\ UNCHANGED << now, request_token_manager, generated, issued, exchanged,
                    files, processes, storeVars, trail, threadVars >>

\* the answer is on the wire: the handler returns and its thread ends
finish ==
    /\ pc = "answered"
    /\ pc' = "idle"
    /\ call' = NoCall
    /\ UNCHANGED << now, request_token_manager, session_token_manager,
                    generated, issued, exchanged, files, processes, storeVars, trail, threadVars >>

\* time passes, up to the next instant
Tick ==
    /\ pc # "answered"
    /\ \E t \in Instants :
          /\ t > now
          /\ \A u \in Instants : u > now => t <= u
          /\ now' = t
    /\ UNCHANGED << request_token_manager, session_token_manager, generated,
                    issued, exchanged, files, processes, pc, call, storeVars, trail, threadVars >>

\* time.sleep(delay) of retry_call returns
Sleep ==
    /\ pc = "verify"
    /\ now < call.wake
    /\ now' = call.wake
    /\ UNCHANGED << request_token_manager, session_token_manager, generated,
                    issued, exchanged, files, processes, pc, call, storeVars, trail, threadVars >>

\* a dcvagent process appears in the process table
StartSession ==
    /\ pc # "answered"
    /\ \E row \in ProcessRows \ processes : processes' = processes \cup {row}
    /\ UNCHANGED << now, request_token_manager, session_token_manager,
                    generated, issued, exchanged, files, pc, call, storeVars, trail, threadVars >>

\* a dcvagent process ends
EndSession ==
    /\ pc # "answered"
    /\ \E row \in processes : processes' = processes \ {row}
    /\ UNCHANGED << now, request_token_manager, session_token_manager,
                    generated, issued, exchanged, files, pc, call, storeVars, trail, threadVars >>

\* somebody creates a file of a returned name in AUTHORIZATION_FILE_DIR;
\* the modification time is now, or was set back (utime)
CreateFile ==
    /\ pc # "answered"
    /\ \E name \in issued, owner \in FileOwners, mtime \in {0, now} :
          /\ \A f \in files : f.name # name
          /\ files' = files \cup {[name |-> name, st_uid |-> owner, st_mtime |-> mtime]}
    /\ UNCHANGED << now, request_token_manager, session_token_manager,
                    generated, issued, exchanged, processes, pc, call,
                    storeVars, trail, threadVars >>

Next ==
    \/ do_GET_requestToken(RequestTokenQueries)
    \/ do_GET_sessionToken(SessionTokenQueries)
    \/ do_GET_other
    \/ request_token_issued
    \/ session_token_issued
    \/ session_check_retry
    \/ session_check_failed
    \/ do_POST(PostBodies)
    \/ finish
    \/ Tick
    \/ StartSession
    \/ EndSession
    \/ CreateFile

Spec == Init /\ [][Next]_vars

(***************************************************************************)
(* SpecInput: the same authenticator offered malformed parameters, with    *)
(* sessions that do not end.                                               *)
(***************************************************************************)
NextInput ==
    \/ do_GET_requestToken(WideRequestTokenQueries)
    \/ do_GET_sessionToken(WideSessionTokenQueries)
    \/ do_GET_other
    \/ request_token_issued
    \/ session_token_issued
    \/ session_check_retry
    \/ session_check_failed
    \/ do_POST(WidePostBodies)
    \/ finish
    \/ Tick
    \/ StartSession
    \/ CreateFile

SpecInput == Init /\ [][NextInput]_vars

(***************************************************************************)
(* SpecRetry: requestToken requests for one session that starts and ends   *)
(* while retry_call runs.  A thread that can take a step takes it: an      *)
(* attempt is made when it is due, and a sleep ends.                       *)
(***************************************************************************)
RetryQueries == { [authUser |-> alice, sessionID |-> sess1, others |-> 0] }

NextRetry ==
    \/ do_GET_requestToken(RetryQueries)
    \/ request_token_issued
    \/ session_check_retry
    \/ session_check_failed
    \/ finish
    \/ Tick
    \/ Sleep
    \/ StartSession
    \/ EndSession

SpecRetry ==
    /\ Init
    /\ [][NextRetry]_vars
    /\ WF_vars(Sleep)
    /\ WF_vars(request_token_issued \/ session_check_retry \/ session_check_failed)

(***************************************************************************)
(* SpecThreads: two handler threads of ThreadedHTTPServer on the two       *)
(* shared stores, for alice's session sess1, which runs throughout, at one *)
(* instant.  Nothing locks a store.  A thread can be preempted between any *)
(* two statements: add_token is the test of the while loop, popitem and    *)
(* the assignment, each one step; get_token_info is the single call        *)
(* OrderedDict.pop, one step of an interpreter whose OrderedDict is built  *)
(* in (CPython 3.5 and later); where OrderedDict.pop is itself Python code *)
(* the call is not one step and this model does not cover it.  What a      *)
(* handler does                                                            *)
(* between its calls on the stores touches nothing another thread of the   *)
(* model touches, and is part of the step before.                          *)
(***************************************************************************)
MaxThreadGenerated == 6

\* the tokens generated so far
ThreadTokens == { generate_random_token(k) : k \in 1..generated }

TokensOf(name) ==
    IF name = "request" THEN request_token_manager ELSE session_token_manager

MaxOf(name) ==
    IF name = "request" THEN MAX_NUMBER_OF_REQUEST_TOKENS
    ELSE MAX_NUMBER_OF_SESSION_TOKENS

\* how often a lookup has returned the record of this token
Took(token) == Cardinality({ e \in trail : e.ev = "took" /\ e.token = token })

\* how often this token has been answered "yes"
Yes(token) == Cardinality({ e \in trail : e.ev = "yes" /\ e.token = token })

\* a lookup of a token: its record returned, or None for a token whose
\* record an earlier lookup got
Lookup(token, token_info) ==
    IF token_info # None
    THEN { [ev |-> "took", token |-> token, k |-> Took(token) + 1] }
    ELSE IF Took(token) > 0 THEN { [ev |-> "absent", token |-> token] }
    ELSE {}

InitThreads ==
    /\ now = 0
    /\ request_token_manager = << >>
    /\ session_token_manager = << >>
    /\ generated = 0
    /\ issued = {}
    /\ exchanged = {}
    /\ files = {}
    /\ processes = ProcessRows
    /\ pc = "idle"
    /\ call = NoCall
    /\ store = << >>
    /\ capacity = 1
    /\ inserted = << >>
    /\ taken = {}
    /\ last = [op |-> "none"]
    /\ trail = {}
    /\ threads = [t \in Threads |-> idle]

\* _get_request_token up to the call of add_token
thread_requestToken(t) ==
    /\ threads[t] = idle
    /\ generated + 2 <= MaxThreadGenerated
    /\ validate_param(alice, "USER_REGEX")
    /\ validate_param(sess1, "SESSION_ID_REGEX")
    /\ is_session_valid(processes, alice, sess1)
    /\ LET request_token == generate_random_token(generated + 1)
           salt == generate_random_token(generated + 2)
           access_file == generate_sha512_hash(request_token, salt)
       IN  threads' = [threads EXCEPT ![t] =
                          [pc |-> "add_check", op |-> "requestToken",
                           store |-> "request", token |-> request_token,
                           info |-> RequestTokenInfo(alice, sess1, now, access_file),
                           from |-> NoString]]
    /\ generated' = generated + 2
    /\ UNCHANGED << now, request_token_manager, session_token_manager, issued,
                    exchanged, files, processes, pc, call, storeVars, trail >>

\* _get_session_token up to the call of add_token, or to the exception
thread_sessionToken(t) ==
    /\ threads[t] = idle
    /\ \E request_token \in ThreadTokens, remove_fails \in BOOLEAN :
        LET r == get_session_token(request_token_manager, files, request_token,
                                   now, remove_fails)
        IN  /\ request_token_manager' = r.tokens
            /\ files' = r.files
            /\ exchanged' = IF r.token_info = None THEN exchanged
                            ELSE exchanged \cup {request_token}
            /\ trail' = trail \cup Lookup(request_token, r.token_info)
            /\ IF r.kind = "passed"
               THEN /\ generated + 1 <= MaxThreadGenerated
                    /\ is_session_valid(processes, r.token_info.user,
                                        r.token_info.dcv_session_id)
                    /\ generated' = generated + 1
                    /\ threads' = [threads EXCEPT ![t] =
                           [pc |-> "add_check", op |-> "sessionToken",
                            store |-> "session",
                            token |-> generate_random_token(generated + 1),
                            info |-> SessionTokenInfo(r.token_info.user,
                                         r.token_info.dcv_session_id, now),
                            from |-> request_token]]
               ELSE UNCHANGED << generated, threads >>
    /\ UNCHANGED << now, session_token_manager, issued, processes, pc, call,
                    storeVars >>

\* do_POST with three parameters: _check_auth and the answer
thread_POST(t) ==
    /\ threads[t] = idle
    /\ \E session_token \in ThreadTokens :
        LET r == check_auth(session_token_manager, sess1, session_token, now)
        IN  /\ session_token_manager' = r.tokens
            /\ trail' = trail \cup Lookup(session_token, r.token_info)
                   \cup ( IF r.user # NoString /\ r.user # << >>
                          THEN { [ev |-> "yes", token |-> session_token,
                                  k |-> Yes(session_token) + 1] }
                          ELSE {} )
    /\ UNCHANGED << now, request_token_manager, generated, issued, exchanged,
                    files, processes, pc, call, storeVars, threads >>

\* add_token: the test of "while len(self._tokens) >= self._max_number_of_tokens"
add_token_check(t) ==
    /\ threads[t].pc = "add_check"
    /\ threads' = [threads EXCEPT ![t].pc =
                      IF Len(TokensOf(threads[t].store)) >= MaxOf(threads[t].store)
                      THEN "add_popitem" ELSE "add_setitem"]
    /\ UNCHANGED << authVars, storeVars, trail >>

\* add_token: self._tokens.popitem(last=False); on an empty dictionary it
\* raises KeyError, which no handler catches: the thread ends
add_token_popitem(t) ==
    /\ threads[t].pc = "add_popitem"
    /\ IF TokensOf(threads[t].store) = << >>
       THEN /\ threads' = [threads EXCEPT ![t] = idle]
            /\ trail' = trail \cup { [ev |-> "KeyError", op |-> threads[t].op] }
            /\ UNCHANGED << request_token_manager, session_token_manager >>
       ELSE /\ threads' = [threads EXCEPT ![t].pc = "add_check"]
            /\ IF threads[t].store = "request"
               THEN /\ request_token_manager' = Tail(request_token_manager)
                    /\ UNCHANGED session_token_manager
               ELSE /\ session_token_manager' = Tail(session_token_manager)
                    /\ UNCHANGED request_token_manager
            /\ UNCHANGED trail
    /\ UNCHANGED << now, generated, issued, exchanged, files, processes, pc,
                    call, storeVars >>

\* add_token: self._tokens[token] = token_info; the handler returns the token
add_token_setitem(t) ==
    /\ threads[t].pc = "add_setitem"
    /\ threads' = [threads EXCEPT ![t] = idle]
    /\ IF threads[t].store = "request"
       THEN /\ request_token_manager' =
                   SetItem(request_token_manager, threads[t].token, threads[t].info)
            /\ issued' = issued \cup {threads[t].info.access_file}
            /\ trail' = trail \cup
                   { [ev |-> "requested", token |-> threads[t].token,
                      user |-> threads[t].info.user,
                      session |-> threads[t].info.dcv_session_id,
                      access_file |-> threads[t].info.access_file] }
            /\ UNCHANGED session_token_manager
       ELSE /\ session_token_manager' =
                   SetItem(session_token_manager, threads[t].token, threads[t].info)
            /\ trail' = trail \cup
                   { [ev |-> "granted", token |-> threads[t].token,
                      from |-> threads[t].from,
                      user |-> threads[t].info.user,
                      session |-> threads[t].info.dcv_session_id] }
            /\ UNCHANGED << request_token_manager, issued >>
    /\ UNCHANGED << now, generated, exchanged, files, processes, pc, call,
                    storeVars >>

\* alice creates the access file of a returned name
CreateOwnFile ==
    /\ \E name \in issued :
          /\ \A f \in files : f.name # name
          /\ files' = files \cup
                 {[name |-> name, st_uid |-> "uid_alice", st_mtime |-> now]}
    /\ UNCHANGED << now, request_token_manager, session_token_manager,
                    generated, issued, exchanged, processes, pc, call,
                    storeVars, trail, threadVars >>

NextThreads ==
    \/ \E t \in Threads : thread_requestToken(t)
    \/ \E t \in Threads : thread_sessionToken(t)
    \/ \E t \in Threads : thread_POST(t)
    \/ \E t \in Threads : add_token_check(t)
    \/ \E t \in Threads : add_token_popitem(t)
    \/ \E t \in Threads : add_token_setitem(t)
    \/ CreateOwnFile

SpecThreads == InitThreads /\ [][NextThreads]_vars

(***************************************************************************)
(* SpecStore: add_token and get_token_info called one at a time on a store *)
(* of any capacity, with tokens as generate_random_token returns them.     *)
(***************************************************************************)
MaxCapacity == 3
MaxStoreTokens == 5

StoreTokens == { generate_random_token(k) : k \in 1..MaxStoreTokens }

InitStore ==
    /\ capacity \in 1..MaxCapacity
    /\ store = << >>
    /\ inserted = << >>
    /\ taken = {}
    /\ last = [op |-> "none"]
    /\ now = 0
    /\ request_token_manager = << >>
    /\ session_token_manager = << >>
    /\ generated = 0
    /\ issued = {}
    /\ exchanged = {}
    /\ files = {}
    /\ processes = {}
    /\ pc = "idle"
    /\ call = NoCall
    /\ trail = {}
    /\ threads = [t \in Threads |-> idle]

StoreAdd ==
    /\ Len(inserted) < MaxStoreTokens
    /\ LET token == generate_random_token(Len(inserted) + 1)
       IN  /\ store' = add_token(store, capacity, token, [id |-> Len(inserted) + 1])
           /\ inserted' = Append(inserted, token)
           /\ last' = [op |-> "add", token |-> token, full |-> Len(store) >= capacity]
    /\ UNCHANGED << capacity, taken, authVars, trail, threadVars >>

StoreTake ==
    \E token \in StoreTokens :
        LET result == get_token_info(store, token)
        IN  /\ store' = pop_token(store, token)
            /\ taken' = IF result = None THEN taken ELSE taken \cup {token}
            /\ last' = [op |-> "take", token |-> token, result |-> result,
                                       again |-> token \in taken]
            /\ UNCHANGED << capacity, inserted, authVars, trail, threadVars >>

NextStore == StoreAdd \/ StoreTake

SpecStore == InitStore /\ [][NextStore]_vars

\* position of a token in the order of the add calls
Pos(token) == CHOOSE i \in 1..Len(inserted) : inserted[i] = token

Inserted == { inserted[i] : i \in 1..Len(inserted) }

\* C3: once get_token_info has returned the record of a token, every later
\* get_token_info of that token returns None (a value, not an error) and the
\* token is not in the store, whatever add and get_token_info calls on other
\* tokens came in between.
SingleUseLookup ==
    /\ \A token \in taken : token \notin Keys(store)
    /\ (last.op = "take" /\ last.again) => last.result = None

\* a second lookup of a token taken before, with other tokens added since
SingleUseLookupWitness ==
    /\ last.op = "take"
    /\ last.again
    /\ last.result = None
    /\ store # << >>
    /\ Pos(last.token) < Len(inserted)

Min(a, b) == IF a < b THEN a ELSE b

\* the record inserted earliest among those the store holds
Earliest(tokens) ==
    CHOOSE x \in Keys(tokens) : \A y \in Keys(tokens) : Pos(x) <= Pos(y)

FifoState ==
    /\ Len(store) <= capacity
    /\ Cardinality(Keys(store)) = Len(store)
    /\ \A i, j \in 1..Len(store) : i < j => Pos(store[i].token) < Pos(store[j].token)
    /\ \A x \in Keys(store) : x \notin taken
    /\ \A x \in Keys(store), y \in Inserted :
            (Pos(y) > Pos(x) /\ y \notin taken) => y \in Keys(store)
    /\ taken = {} =>
            Keys(store) = { inserted[i] :
                i \in (Len(inserted) - Min(capacity, Len(inserted)) + 1)..Len(inserted) }

FifoStep ==
    last'.op = "add" /\ last' # last =>
        IF Len(store) >= capacity
        THEN Keys(store') = (Keys(store) \ {Earliest(store)}) \cup {last'.token}
        ELSE Keys(store') = Keys(store) \cup {last'.token}

\* C4: a store of capacity N holds at most N records, in insertion order,
\* and they are the most recently inserted ones not taken; an add that
\* finds the store at capacity removes exactly the record inserted earliest
\* among those present, whichever tokens were looked up; with no record
\* taken the store holds exactly the last N tokens inserted.
FifoBound == [](FifoState) /\ [][FifoStep]_vars

\* an add found the store full after a lookup had removed a record
FifoBoundWitness ==
    /\ last.op = "add"
    /\ last.full
    /\ taken # {}
    /\ Len(store) = capacity
    /\ capacity >= 2

(***************************************************************************)
(* Properties of the authenticator.                                        *)
(***************************************************************************)
\* a request of this kind arrives in this step
Arrives(op) == pc = "idle" /\ pc' # "idle" /\ call'.op = op

\* the records a store holds under a token
Held(tokens, token) ==
    { tokens[i].info : i \in { j \in 1..Len(tokens) : tokens[j].token = token } }

\* do_POST gets as far as calling _check_auth
CheckAuthCalled(input) ==
    /\ input.authenticationToken # Absent
    /\ input.sessionId # Absent
    /\ input.others = 1

\* do_GET gets as far as calling _get_session_token
GetSessionTokenCalled(input) ==
    /\ input.requestToken # Absent
    /\ input.others <= 1

\* C1: with a session token T2 held for (alice, sess1) and within its
\* lifetime, the POST whose body is exactly
\* authenticationToken=T2&sessionId=sess1 is answered "yes" with username
\* alice; a POST of that form with a token the store does not (or no
\* longer) hold is answered "no".
EndToEndHandshake ==
    [][ ( /\ Arrives("POST")
          /\ call'.input.others = 0
          /\ call'.input.authenticationToken # Absent
          /\ call'.input.sessionId = sess1 )
        => IF \E info \in Held(session_token_manager,
                               call'.input.authenticationToken) :
                  /\ info.user = alice
                  /\ info.dcv_session_id = sess1
                  /\ now - info.creation_time <= SESSION_TOKEN_EXPIRE_SECONDS
           THEN /\ call'.kind = "yes"
                /\ call'.out = [username |-> alice]
           ELSE call'.kind # "yes" ]_vars

\* C2: a _check_auth call with a well-formed session id S and token T
\* returns user U exactly when the session-token store holds T with user U,
\* session id S and age at most 30 s; otherwise it returns no user.
ValidateSessionToken ==
    [][ ( /\ Arrives("POST")
          /\ CheckAuthCalled(call'.input)
          /\ SESSION_ID_REGEX(call'.input.sessionId)
          /\ TOKEN_REGEX(call'.input.authenticationToken) )
        => LET live == { info \in Held(session_token_manager,
                                       call'.input.authenticationToken) :
                           /\ info.dcv_session_id = call'.input.sessionId
                           /\ now - info.creation_time
                                  <= SESSION_TOKEN_EXPIRE_SECONDS }
           IN  IF live # {}
               THEN /\ call'.kind = "yes"
                    /\ \A info \in live : call'.out = [username |-> info.user]
               ELSE /\ call'.kind = "ValidationFailed"
                    /\ call'.out = None ]_vars

\* a token validated at the age of exactly 30 s
ValidateSessionTokenWitness ==
    /\ pc = "answered"
    /\ call.op = "POST"
    /\ call.kind = "yes"
    /\ call.out = [username |-> alice]
    /\ call.at - call.token_info.creation_time = SESSION_TOKEN_EXPIRE_SECONDS

\* C5: a _get_session_token call with a request token the store holds at an
\* age above 10 s ends with TokenExpired, returns and stores no session
\* token and removes the request token; at the age of exactly 10 s the
\* token is not refused as expired.
RequestTokenExpiry ==
    [][ ( /\ Arrives("sessionToken")
          /\ GetSessionTokenCalled(call'.input)
          /\ TOKEN_REGEX(call'.input.requestToken) )
        => \A info \in Held(request_token_manager, call'.input.requestToken) :
              /\ now - info.creation_time > REQUEST_TOKEN_EXPIRE_SECONDS
                    => /\ pc' = "answered"
                       /\ call'.kind = "TokenExpired"
                       /\ call'.out = None
                       /\ session_token_manager' = session_token_manager
                       /\ generated' = generated
                       /\ call'.input.requestToken
                              \notin Keys(request_token_manager')
              /\ now - info.creation_time = REQUEST_TOKEN_EXPIRE_SECONDS
                    => call'.kind # "TokenExpired" ]_vars

\* a held request token refused as expired, and gone
RequestTokenExpiryWitness ==
    /\ pc = "answered"
    /\ call.op = "sessionToken"
    /\ call.kind = "TokenExpired"
    /\ call.token_info # None
    /\ call.at - call.token_info.creation_time > REQUEST_TOKEN_EXPIRE_SECONDS
    /\ call.input.requestToken \notin Keys(request_token_manager)
    /\ session_token_manager = << >>

\* C6: a _get_session_token call with an unexpired request token of user U
\* ends with ProofMissing when the directory has no file of the stored
\* name, and with ProofOwnerMismatch when the file is there and belongs to
\* another account; no session token is returned or stored.
ProofBinding ==
    [][ ( /\ Arrives("sessionToken")
          /\ GetSessionTokenCalled(call'.input)
          /\ TOKEN_REGEX(call'.input.requestToken) )
        => \A info \in Held(request_token_manager, call'.input.requestToken) :
              now - info.creation_time <= REQUEST_TOKEN_EXPIRE_SECONDS
              => LET proof == { f \in files : f.name = info.access_file }
                     refused(kind) ==
                         /\ pc' = "answered"
                         /\ call'.kind = kind
                         /\ call'.out = None
                         /\ session_token_manager' = session_token_manager
                         /\ generated' = generated
                 IN  /\ proof = {} => refused("ProofMissing")
                     /\ \A f \in proof :
                           ( /\ f.st_uid \in DOMAIN passwd
                             /\ passwd[f.st_uid] # info.user )
                           => refused("ProofOwnerMismatch") ]_vars

\* alice's request token refused over a fresh file that bob created
ProofBindingWitness ==
    /\ pc = "answered"
    /\ call.op = "sessionToken"
    /\ call.kind = "ProofOwnerMismatch"
    /\ call.token_info.user = alice
    /\ \E f \in files :
          /\ f.name = call.token_info.access_file
          /\ f.st_uid = "uid_bob"
          /\ call.at - f.st_mtime <= REQUEST_TOKEN_EXPIRE_SECONDS
    /\ session_token_manager = << >>

\* C7: once a _get_session_token call has found a request token in the
\* store, every later _get_session_token call with that token ends with
\* InvalidToken, whatever the first call ended with and whatever files
\* exist by then.
ExchangedAtMostOnce ==
    [][ ( /\ Arrives("sessionToken")
          /\ GetSessionTokenCalled(call'.input)
          /\ call'.input.requestToken \in exchanged )
        => /\ pc' = "answered"
           /\ call'.kind = "InvalidToken"
           /\ call'.out = None ]_vars

\* a second exchange refused although alice's proof file is now in place
ExchangedAtMostOnceWitness ==
    /\ pc = "answered"
    /\ call.op = "sessionToken"
    /\ call.kind = "InvalidToken"
    /\ call.input.requestToken \in exchanged
    /\ session_token_manager = << >>
    /\ \E f \in files :
          /\ f.name.sha512 = call.input.requestToken
          /\ f.st_uid = "uid_alice"
          /\ call.at - f.st_mtime <= REQUEST_TOKEN_EXPIRE_SECONDS

\* C8 as stated: whatever a _check_auth call answers, the token it was
\* given is not in the session-token store afterwards.
ValidationBurnsToken ==
    [][ ( /\ Arrives("POST")
          /\ CheckAuthCalled(call'.input)
          /\ call'.input.authenticationToken \in Keys(session_token_manager) )
        => call'.input.authenticationToken
               \notin Keys(session_token_manager') ]_vars

\* C8 amended: a POST that presents a held token and gets as far as
\* _check_auth with a session id matching the session-id pattern is answered
\* on the token (accepted, or refused for another session id or for its
\* age) and removes it from the session-token store; a POST refused as a
\* malformed request leaves the store as it was; and a token that has left
\* the store never comes back.
ValidationBurnsCheckedToken ==
    [][ /\ ( /\ Arrives("POST")
             /\ call'.input.authenticationToken \in Keys(session_token_manager) )
           => /\ ( CheckAuthCalled(call'.input)
                   /\ SESSION_ID_REGEX(call'.input.sessionId) )
                 => /\ call'.kind \in {"yes", "ValidationFailed"}
                    /\ call'.input.authenticationToken
                           \notin Keys(session_token_manager')
              /\ call'.kind = "MalformedRequest"
                 => session_token_manager' = session_token_manager
        /\ \A k \in 1..generated :
              generate_random_token(k) \notin Keys(session_token_manager)
              => generate_random_token(k) \notin Keys(session_token_manager') ]_vars

\* a held token refused (other session id, or expired) and gone
ValidationBurnsCheckedTokenWitness ==
    /\ pc = "answered"
    /\ call.op = "POST"
    /\ call.kind = "ValidationFailed"
    /\ call.token_info # None
    /\ call.input.authenticationToken \notin Keys(session_token_manager)

\* C9: while a requestToken request is handled and unless it ends with the
\* token issued, the request-token store does not change; the same for a
\* sessionToken request and the session-token store; a GET that ends in an
\* error returns nothing; _get_session_token goes on to the session check
\* only with a token found, unexpired and proved by a fresh file of its
\* user, and a session token enters the store only in the step that finds
\* the session and returns the token.
NoPartialIssuance ==
    [][ /\ ( /\ call'.op = "requestToken"
             /\ ~(pc' = "answered" /\ call'.kind = "issued") )
           => request_token_manager' = request_token_manager
        /\ ( /\ call'.op = "sessionToken"
             /\ ~(pc' = "answered" /\ call'.kind = "issued") )
           => session_token_manager' = session_token_manager
        /\ ( /\ pc' = "answered"
             /\ call'.op \in {"requestToken", "sessionToken", "GET"}
             /\ call'.kind # "issued" )
           => call'.out = None /\ generated' = generated
        /\ ( Arrives("sessionToken") /\ pc' = "verify" )
           => \E info \in Held(request_token_manager, call'.input.requestToken) :
                 /\ now - info.creation_time <= REQUEST_TOKEN_EXPIRE_SECONDS
                 /\ \E f \in files :
                       /\ f.name = info.access_file
                       /\ f.st_uid \in DOMAIN passwd
                       /\ passwd[f.st_uid] = info.user
                       /\ now - f.st_mtime <= REQUEST_TOKEN_EXPIRE_SECONDS
        /\ ~(Keys(session_token_manager') \subseteq Keys(session_token_manager))
           => /\ pc = "verify"
              /\ call.op = "sessionToken"
              /\ call.input.requestToken \in exchanged
              /\ \E row \in processes :
                    /\ row.command = dcv_agent_path
                    /\ row.user = call.token_info.user
                    /\ row.session = call.token_info.dcv_session_id
              /\ pc' = "answered"
              /\ call'.kind = "issued"
              /\ Keys(session_token_manager') \ Keys(session_token_manager)
                     = {call'.out.sessionToken}
        /\ ~(Keys(request_token_manager') \subseteq Keys(request_token_manager))
           => /\ pc = "verify"
              /\ call.op = "requestToken"
              /\ pc' = "answered"
              /\ call'.kind = "issued"
              /\ Keys(request_token_manager') \ Keys(request_token_manager)
                     = {call'.out.requestToken} ]_vars

\* every check of _get_session_token passed, the session had ended: no token
NoPartialIssuanceWitness ==
    /\ pc = "answered"
    /\ call.op = "sessionToken"
    /\ call.kind = "InvalidSession"
    /\ call.token_info # None
    /\ call.out = None
    /\ session_token_manager = << >>

SessionExistenceRetry ==
    /\ [][ ( pc = "verify" /\ call' # call )
           => LET found == \E row \in processes :
                              /\ row.command = dcv_agent_path
                              /\ row.user = call.token_info.user
                              /\ row.session = call.token_info.dcv_session_id
              IN  /\ call'.attempts = call.attempts + 1
                  /\ call'.attempts <= RETRY_TRIES
                  /\ now >= call.at + call.attempts * RETRY_DELAY
                  /\ ( found /\ call'.raised # "Fault" )
                        => pc' = "answered" /\ call'.kind = "issued"
                  /\ call'.kind = "issued" => found
                  /\ pc' = "verify" => ~found \/ call'.raised = "Fault"
                  /\ ( pc' = "answered" /\ call'.kind # "issued" )
                        => /\ call'.attempts = RETRY_TRIES
                           /\ call'.kind \in {"InvalidSession", "Fault"} ]_vars
    /\ ( pc = "verify" ~> pc = "answered" )

\* a session that was first listed at the fifth attempt is accepted
SessionExistenceRetryWitness ==
    /\ pc = "answered"
    /\ call.op = "requestToken"
    /\ call.kind = "issued"
    /\ call.attempts = RETRY_TRIES
    /\ now >= call.at + (RETRY_TRIES - 1) * RETRY_DELAY

\* C14: a session check whose last attempt fails in the process-table query
\* itself (or on a row without the session argument) is answered
\* InvalidSession, and a proof check that cannot resolve the owner of the
\* file is answered ProofMissing; no token is returned or stored.
FaultsTranslated ==
    [][ /\ ( pc = "verify" /\ pc' = "answered" /\ call'.raised = "Fault" )
           => /\ call'.kind = "InvalidSession"
              /\ call'.out = None
              /\ request_token_manager' = request_token_manager
              /\ session_token_manager' = session_token_manager
        /\ ( /\ Arrives("sessionToken")
             /\ GetSessionTokenCalled(call'.input)
             /\ TOKEN_REGEX(call'.input.requestToken) )
           => \A info \in Held(request_token_manager, call'.input.requestToken) :
                 ( /\ now - info.creation_time <= REQUEST_TOKEN_EXPIRE_SECONDS
                   /\ \E f \in files : /\ f.name = info.access_file
                                       /\ f.st_uid \notin DOMAIN passwd )
                 => /\ pc' = "answered"
                    /\ call'.kind = "ProofMissing"
                    /\ call'.out = None
                    /\ session_token_manager' = session_token_manager ]_vars

\* C15: a _get_session_token call with an unexpired request token whose
\* access file is there, owned by the token's user and fresh passes the
\* proof check and goes on to the session check, whether or not os.remove
\* of the file succeeds.
DeletionFailureTolerated ==
    [][ ( /\ Arrives("sessionToken")
          /\ GetSessionTokenCalled(call'.input)
          /\ TOKEN_REGEX(call'.input.requestToken) )
        => \A info \in Held(request_token_manager, call'.input.requestToken) :
              ( /\ now - info.creation_time <= REQUEST_TOKEN_EXPIRE_SECONDS
                /\ \E f \in files :
                      /\ f.name = info.access_file
                      /\ f.st_uid \in DOMAIN passwd
                      /\ passwd[f.st_uid] = info.user
                      /\ now - f.st_mtime <= REQUEST_TOKEN_EXPIRE_SECONDS )
              => /\ pc' = "verify"
                 /\ call'.kind = "pending" ]_vars

\* C18: with an unexpired request token, the proof check answers
\* ProofMissing without a file of the stored name, else ProofOwnerMismatch
\* when the file belongs to another account (however old it is), else
\* ProofExpired when it is older than 10 s; a sessionToken request removes
\* no file but the access file of its token, after all three checks have
\* passed, and leaves every file in place when the owner or the age is
\* refused or the request token is absent or expired.
ProofCheckOrder ==
    [][ Arrives("sessionToken")
        => LET T == call'.input.requestToken
               looked == /\ GetSessionTokenCalled(call'.input)
                         /\ TOKEN_REGEX(T)
               held == IF looked THEN Held(request_token_manager, T) ELSE {}
               live == { info \in held : now - info.creation_time
                                            <= REQUEST_TOKEN_EXPIRE_SECONDS }
               named(info) == { f \in files : f.name = info.access_file }
               owned(f, info) == /\ f.st_uid \in DOMAIN passwd
                                 /\ passwd[f.st_uid] = info.user
               foreign(f, info) == /\ f.st_uid \in DOMAIN passwd
                                   /\ passwd[f.st_uid] # info.user
               fresh(f) == now - f.st_mtime <= REQUEST_TOKEN_EXPIRE_SECONDS
           IN  /\ \A info \in live :
                     /\ named(info) = {} => call'.kind = "ProofMissing"
                     /\ \A f \in named(info) :
                           /\ foreign(f, info)
                                 => call'.kind = "ProofOwnerMismatch"
                           /\ ( owned(f, info) /\ ~fresh(f) )
                                 => call'.kind = "ProofExpired"
               /\ files' # files
                     => \E info \in live : \E f \in named(info) :
                           /\ owned(f, info)
                           /\ fresh(f)
                           /\ files' = files \ {f}
                           /\ pc' = "verify"
               /\ call'.kind \in { "MalformedRequest", "InvalidToken",
                                   "TokenExpired", "ProofOwnerMismatch",
                                   "ProofExpired" }
                     => files' = files
               /\ live = {} => files' = files ]_vars

\* a file of bob's, older than 10 s, refused for its owner and left in place
ProofCheckOrderWitness ==
    /\ pc = "answered"
    /\ call.op = "sessionToken"
    /\ call.kind = "ProofOwnerMismatch"
    /\ \E f \in files :
          /\ f.name = call.token_info.access_file
          /\ f.st_uid = "uid_bob"
          /\ call.at - f.st_mtime > REQUEST_TOKEN_EXPIRE_SECONDS

\* a dcvagent row of this user and session is in the process table
Listed(user, session) ==
    \E row \in processes : /\ row.command = dcv_agent_path
                           /\ row.user = user
                           /\ row.session = session

\* every session token ever stored came from a request token issued for
\* the same user and session and proved by a file of that user; the stores
\* hold nothing else
HandshakeState ==
    /\ \A e \in trail :
          e.ev = "granted"
          => \E r \in trail :
                /\ r.ev = "requested"
                /\ r.token = e.from
                /\ r.user = e.user
                /\ r.session = e.session
                /\ \E p \in trail : /\ p.ev = "proved"
                                    /\ p.name = r.access_file
                                    /\ p.st_uid \in DOMAIN passwd
                                    /\ passwd[p.st_uid] = e.user
    /\ \A i \in 1..Len(session_token_manager) :
          \E e \in trail :
             /\ e.ev = "granted"
             /\ e.token = session_token_manager[i].token
             /\ e.user = session_token_manager[i].info.user
             /\ e.session = session_token_manager[i].info.dcv_session_id
    /\ \A i \in 1..Len(request_token_manager) :
          \E r \in trail :
             /\ r.ev = "requested"
             /\ r.token = request_token_manager[i].token
             /\ r.user = request_token_manager[i].info.user
             /\ r.session = request_token_manager[i].info.dcv_session_id
             /\ r.access_file = request_token_manager[i].info.access_file

\* what a step may add to the history, and what a "yes" rests on
HandshakeStep ==
    /\ ( Arrives("POST") /\ call'.kind = "yes" )
       => \E e \in trail :
             /\ e.ev = "granted"
             /\ e.token = call'.input.authenticationToken
             /\ e.session = call'.input.sessionId
             /\ call'.out = [username |-> e.user]
    /\ \A e \in trail' \ trail :
          /\ e.ev \in {"requested", "granted"} => Listed(e.user, e.session)
          /\ e.ev = "requested"
                => /\ pc = "verify" /\ call.op = "requestToken"
                   /\ e.user = call.input.authUser
                   /\ e.session = call.input.sessionID
                   /\ call'.out = [requestToken |-> e.token,
                                   accessFile |-> e.access_file]
          /\ e.ev = "granted"
                => /\ pc = "verify" /\ call.op = "sessionToken"
                   /\ e.from = call.input.requestToken
                   /\ call'.out = [sessionToken |-> e.token]
          /\ e.ev = "proved"
                => \E f \in files : f.name = e.name /\ f.st_uid = e.st_uid
    /\ \A i \in 1..Len(request_token_manager),
          j \in 1..Len(request_token_manager') :
          request_token_manager[i].token = request_token_manager'[j].token
          => request_token_manager[i].info = request_token_manager'[j].info
    /\ \A i \in 1..Len(session_token_manager),
          j \in 1..Len(session_token_manager') :
          session_token_manager[i].token = session_token_manager'[j].token
          => session_token_manager[i].info = session_token_manager'[j].info

\* C19: a "yes" disclosing user U for session S answers a session token
\* that _get_session_token stored for (U, S), having taken a request token
\* that _get_request_token stored for (U, S) and having seen the access
\* file of that request token owned by U; both tokens were stored in a step
\* that found the session of (U, S) in the process table; and the record
\* stored under a token never changes while the token is held.
HandshakeOrder == [](HandshakeState) /\ [][HandshakeStep]_vars

\* the last step of a handshake: "yes" for alice after all three events
HandshakeOrderWitness ==
    /\ pc = "answered"
    /\ call.op = "POST"
    /\ call.kind = "yes"
    /\ \E e \in trail : /\ e.ev = "granted"
                        /\ e.token = call.input.authenticationToken
                        /\ e.user = alice
    /\ \E p \in trail : p.ev = "proved" /\ p.st_uid = "uid_alice"

\* a step of the handler of this kind of request
Handles(op) == Arrives(op) \/ ( pc = "verify" /\ call.op = op )

\* C20: handling a requestToken request leaves the session-token store as
\* it is; a POST leaves the request-token store as it is; handling a
\* sessionToken request takes nothing but the presented token out of the
\* request-token store and puts nothing into it, and changes the
\* session-token store only by add_token of the token it returns (which
\* at capacity drops the oldest).  A POST presenting a held request token
\* is not answered "yes" and the token stays held; a sessionToken request
\* presenting a held session token is answered InvalidToken and the token
\* stays held.
NamespacesSeparate ==
    [][ /\ Handles("requestToken")
           => session_token_manager' = session_token_manager
        /\ Arrives("POST")
           => /\ request_token_manager' = request_token_manager
              /\ call'.input.authenticationToken \in Keys(request_token_manager)
                    => call'.kind # "yes"
        /\ Handles("sessionToken")
           => /\ Keys(request_token_manager') \subseteq Keys(request_token_manager)
              /\ \A T \in Keys(request_token_manager) \ Keys(request_token_manager') :
                    Arrives("sessionToken") /\ T = call'.input.requestToken
              /\ \/ session_token_manager' = session_token_manager
                 \/ /\ pc' = "answered" /\ call'.kind = "issued"
                    /\ Keys(session_token_manager') \ Keys(session_token_manager)
                           = {call'.out.sessionToken}
                    /\ \/ Keys(session_token_manager)
                              \subseteq Keys(session_token_manager')
                       \/ Len(session_token_manager)
                              >= MAX_NUMBER_OF_SESSION_TOKENS
        /\ ( /\ Arrives("sessionToken")
             /\ GetSessionTokenCalled(call'.input)
             /\ call'.input.requestToken \in Keys(session_token_manager) )
           => /\ call'.kind = "InvalidToken"
              /\ call'.input.requestToken \in Keys(session_token_manager') ]_vars

\* a held session token presented as requestToken: refused, still held
NamespacesSeparateWitness ==
    /\ pc = "answered"
    /\ call.op = "sessionToken"
    /\ call.kind = "InvalidToken"
    /\ call.input.requestToken \in Keys(session_token_manager)

(***************************************************************************)
(* Properties of the handler threads on the shared stores (SpecThreads)    *)
(***************************************************************************)
\* the events a step adds to the trail
NewEvents == trail' \ trail

StoredTokens == Keys(request_token_manager) \cup Keys(session_token_manager)

\* C11: of the lookups of one token by the handler threads, in whatever
\* order they run, one returns the record and every other returns None: no
\* record is returned twice, the lookup that returns it finds the token in
\* the store and removes it, a lookup of a token already returned finds
\* nothing, and no lookup raises.
RacingTakes ==
    /\ [](\A e \in trail : e.ev = "took" => e.k = 1)
    /\ [][ \A e \in NewEvents :
              /\ e.ev = "took" => /\ e.token \in StoredTokens
                                  /\ e.token \notin StoredTokens'
              /\ e.ev = "absent" => /\ e.token \notin StoredTokens
                                    /\ Took(e.token) = 1
              /\ (e.ev = "took" \/ e.ev = "absent")
                    => \A x \in NewEvents : x.ev # "KeyError" ]_vars

\* a token looked up twice while the other thread is inside add_token: the
\* first lookup got the record, the second got None
RacingTakesWitness ==
    \E T \in ThreadTokens :
        /\ [ev |-> "took", token |-> T, k |-> 1] \in trail
        /\ [ev |-> "absent", token |-> T] \in trail
        /\ \E t \in Threads : threads[t].pc # "idle"

\* C12: whatever the handler threads do, and wherever each is between the
\* test of the while loop, popitem and the assignment of add_token, a
\* store holds at most as many records as its capacity.
CapacityUnderThreads ==
    /\ Len(request_token_manager) <= MAX_NUMBER_OF_REQUEST_TOKENS
    /\ Len(session_token_manager) <= MAX_NUMBER_OF_SESSION_TOKENS

\* C17: add_token completes without raising in every reachable state,
\* whatever the other thread did to the store between its statements.
AddNeverFails ==
    \A e \in trail : e.ev # "KeyError"

\* the session tokens issued, or about to be stored, for a request token
GrantedFrom(T) ==
    Cardinality({ e \in trail : e.ev = "granted" /\ e.from = T })
    + Cardinality({ t \in Threads : /\ threads[t].pc # "idle"
                                    /\ threads[t].op = "sessionToken"
                                    /\ threads[t].from = T })

\* C16: however the requests of the handler threads interleave, a request
\* token leads to at most one session token, and a session token to at most
\* one "yes".
ExactlyOnceUnderThreads ==
    \A T \in ThreadTokens : GrantedFrom(T) <= 1 /\ Yes(T) <= 1

\* a request token exchanged once and refused the second time, and the
\* session token it gave answered "yes" once and refused the second time
ExactlyOnceUnderThreadsWitness ==
    \E g \in trail :
        /\ g.ev = "granted"
        /\ [ev |-> "absent", token |-> g.from] \in trail
        /\ [ev |-> "yes", token |-> g.token, k |-> 1] \in trail
        /\ [ev |-> "absent", token |-> g.token] \in trail

====
